---- MODULE Spec2Model ----
(***************************************************************************)
(* State-machine model of the ticketninja back end (src/back-end/server.js):*)
(* the four route handlers /search, /event/:id, /venue and /suggest, the    *)
(* normalisation helpers they call, and the application error handler.      *)
(*                                                                          *)
(* Each route handler is an async function with one suspension point that   *)
(* matters (await fetch, followed by await r.json()).  A handler is         *)
(* modelled by two actions: XRequest runs the handler up to the fetch (or   *)
(* to an early response), XResponse resumes it with the upstream outcome    *)
(* and runs it to the response.  Finish lets the next request in.           *)
(*                                                                          *)
(* JavaScript values are tagged records [t |-> type, v |-> value].          *)
(* Strings whose characters the code inspects (keyword: trim; status code:  *)
(* toLowerCase/includes) are tuples of one-character strings; every other   *)
(* string is a TLA+ string.                                                 *)
(*                                                                          *)
(* Not modelled: the geohash computed by the ngeohash library and the value *)
(* of the TM_API_KEY environment variable (both come from outside the       *)
(* repository); width/height values that are not numbers; query parameters  *)
(* that are not strings (repeated or bracketed parameters).                 *)
(***************************************************************************)
EXTENDS Integers, Sequences, FiniteSets, TLC

VARIABLES
    req,        \* the request being handled: [op, ...query/path parameters]
    pc,         \* "idle" | "await" (suspended in await fetch) | "done"
    fetches,    \* number of fetch() calls issued for the current request
    sent,       \* the upstream request issued by fetch(), or NoCall
    upstream,   \* the upstream outcome the handler resumed with, or NoOutcome
    res,        \* the response sent for the current request, or NoResponse
    arg,        \* argument of the helper under test (helper specifications)
    ret         \* its result

vars == <<req, pc, fetches, sent, upstream, res, arg, ret>>

---------------------------------------------------------------------------
(* Bounds of the model *)

MaxKw == 2          \* longest keyword, in characters
MaxEvents == 2      \* longest embedded events array in a search payload
MaxImages == 3      \* longest images array given to pickImage
MaxNames == 1       \* longest name list per category in a suggest payload
MaxRun == 5         \* longest name list per category given to the suggestion helper

---------------------------------------------------------------------------
(* JavaScript values *)

Undef == [t |-> "undefined"]
Null == [t |-> "null"]
Str(s) == [t |-> "string", v |-> s]
Num(n) == [t |-> "number", v |-> n]
Bool(b) == [t |-> "boolean", v |-> b]
Arr(s) == [t |-> "array", v |-> s]
Obj(r) == [t |-> "object", v |-> r]
Throw(m) == [t |-> "throw", v |-> m]

IsThrow(x) == x.t = "throw"
IsNullish(x) == x.t \in {"undefined", "null"}

\* ToBoolean: undefined, null, false, 0, '' are falsy; objects and arrays truthy.
Truthy(x) ==
    CASE x.t \in {"undefined", "null"} -> FALSE
      [] x.t = "boolean" -> x.v
      [] x.t = "number" -> x.v # 0
      [] x.t = "string" -> Len(x.v) > 0
      [] OTHER -> TRUE

\* o?.k : undefined when o is nullish or has no such property.
Get(o, k) ==
    IF o.t = "object" /\ k \in DOMAIN o.v THEN o.v[k] ELSE Undef

\* a?.[0] on an array value
First(a) ==
    IF a.t = "array" /\ Len(a.v) > 0 THEN a.v[1] ELSE Undef

\* x ?? d
Coalesce(x, d) == IF IsNullish(x) THEN d ELSE x

\* x || d
OrElse(x, d) == IF Truthy(x) THEN x ELSE d

\* destructuring default: { k = d } = obj
Default(x, d) == IF x.t = "undefined" THEN d ELSE x

Abs(n) == IF n < 0 THEN -n ELSE n

RECURSIVE SeqsUpTo(_, _)
SeqsUpTo(S, n) ==
    IF n = 0 THEN {<<>>}
    ELSE LET shorter == SeqsUpTo(S, n - 1)
         IN shorter \cup {Append(s, x) : s \in {q \in shorter : Len(q) = n - 1}, x \in S}

---------------------------------------------------------------------------
(* Helpers *)

\* category -> segmentId map
SEGMENT_IDS ==
    [Music |-> "KZFzniwnSyZfZ7v7nJ",
     Sports |-> "KZFzniwnSyZfZ7v7nE",
     Film |-> "KZFzniwnSyZfZ7v7nn",
     Miscellaneous |-> "KZFzniwnSyZfZ7v7n1"]
    @@ ("Arts & Theatre" :> "KZFzniwnSyZfZ7v7na")

\* SEGMENT_IDS is an object literal, so its prototype is Object.prototype:
\* a property read that misses the own keys finds the inherited members.
ObjectPrototype ==
    [constructor |-> "function Object() { [native code] }",
     toString |-> "function toString() { [native code] }",
     valueOf |-> "function valueOf() { [native code] }",
     hasOwnProperty |-> "function hasOwnProperty() { [native code] }",
     isPrototypeOf |-> "function isPrototypeOf() { [native code] }",
     propertyIsEnumerable |-> "function propertyIsEnumerable() { [native code] }",
     toLocaleString |-> "function toLocaleString() { [native code] }",
     __proto__ |-> "[object Object]"]

\* const seg = SEGMENT_IDS[category]; inherited members are functions or
\* objects (truthy); they are given here by their String() form, which is what
\* params.set('segmentId', seg) stores.
SegmentLookup(category) ==
    IF category.t # "string" THEN Undef
    ELSE IF category.v \in DOMAIN SEGMENT_IDS THEN Str(SEGMENT_IDS[category.v])
    ELSE IF category.v \in DOMAIN ObjectPrototype THEN Str(ObjectPrototype[category.v])
    ELSE Undef

\* Math.abs(a.width - a.height)
Squareness(img) == Abs(img.v.width.v - img.v.height.v)

\* Insert x into the sorted sequence s after every element that does not
\* compare greater than it (Array.prototype.sort is stable).
RECURSIVE InsertStable(_, _)
InsertStable(s, x) ==
    IF s = <<>> THEN <<x>>
    ELSE IF Squareness(s[1]) - Squareness(x) <= 0
         THEN <<s[1]>> \o InsertStable(Tail(s), x)
         ELSE <<x>> \o s

RECURSIVE SortBySquareness(_)
SortBySquareness(s) ==
    IF s = <<>> THEN <<>>
    ELSE InsertStable(SortBySquareness(SubSeq(s, 1, Len(s) - 1)), s[Len(s)])

\* function pickImage(images).  The comparator reads a.width of every element
\* it is given, so a null element throws as soon as the array has two
\* elements; images[0].url throws when the first element is null.
PickImage(images) ==
    IF images.t # "array" \/ Len(images.v) = 0 THEN Str("")
    ELSE IF Len(images.v) >= 2 /\ \E i \in 1..Len(images.v) : IsNullish(images.v[i])
    THEN Throw("TypeError")
    ELSE LET sorted == IF Len(images.v) >= 2 THEN SortBySquareness(images.v) ELSE images.v
             best == Get(sorted[1], "url")
         IN IF Truthy(best) THEN best
            ELSE IF IsNullish(images.v[1]) THEN Throw("TypeError")
            ELSE OrElse(Get(images.v[1], "url"), Str(""))

\* parts.join(' | ')
RECURSIVE JoinWith(_, _)
JoinWith(parts, sep) ==
    IF parts = <<>> THEN ""
    ELSE IF Len(parts) = 1 THEN parts[1]
    ELSE parts[1] \o sep \o JoinWith(Tail(parts), sep)

\* [..].filter(Boolean) on a sequence of JS values, giving their strings
RECURSIVE FilterTruthy(_)
FilterTruthy(s) ==
    IF s = <<>> THEN <<>>
    ELSE IF Truthy(s[1]) THEN <<s[1].v>> \o FilterTruthy(Tail(s))
    ELSE FilterTruthy(Tail(s))

\* function pickGenre(classifications)
PickGenre(classifications) ==
    IF classifications.t # "array" \/ Len(classifications.v) = 0 THEN Str("")
    ELSE LET c == classifications.v[1]
             parts == FilterTruthy(<<Get(Get(c, "segment"), "name"),
                                     Get(Get(c, "genre"), "name"),
                                     Get(Get(c, "subGenre"), "name")>>)
         IN Str(JoinWith(parts, " | "))

\* function fullAddress(venue)
FullAddress(venue) ==
    IF ~Truthy(venue) THEN Str("")
    ELSE LET cityState == Str(JoinWith(FilterTruthy(<<Get(Get(venue, "city"), "name"),
                                                      Get(Get(venue, "state"), "stateCode")>>),
                                       ", "))
             parts == FilterTruthy(<<Get(venue, "name"),
                                     Get(Get(venue, "address"), "line1"),
                                     cityState,
                                     Get(venue, "postalCode")>>)
         IN Str(JoinWith(parts, ", "))

\* function normEventRow(e): e.id and e.name are read without optional
\* chaining, so a null element of the events array throws.
NormEventRow(e) ==
    IF IsNullish(e) THEN Throw("TypeError")
    ELSE LET image == PickImage(Get(e, "images"))
         IN IF IsThrow(image) THEN image
            ELSE Obj([id |-> Get(e, "id"),
                      name |-> Coalesce(Get(e, "name"), Str("")),
                      dateLocal |-> Coalesce(Get(Get(Get(e, "dates"), "start"), "localDate"), Str("")),
                      imageUrl |-> image,
                      genre |-> PickGenre(Get(e, "classifications")),
                      venue |-> Coalesce(Get(First(Get(Get(e, "_embedded"), "venues")), "name"),
                                         Str(""))])

\* array.map(f) where f may throw: the first throw wins
RECURSIVE MapRows(_)
MapRows(s) ==
    IF s = <<>> THEN Arr(<<>>)
    ELSE LET row == NormEventRow(s[1])
             rest == MapRows(Tail(s))
         IN IF IsThrow(row) THEN row
            ELSE IF IsThrow(rest) THEN rest
            ELSE Arr(<<row>> \o rest.v)

\* String.prototype.trim on a tuple of characters
WhiteSpace == {" ", "\t", "\n"}

RECURSIVE TrimStart(_)
TrimStart(s) ==
    IF s # <<>> /\ s[1] \in WhiteSpace THEN TrimStart(Tail(s)) ELSE s

RECURSIVE TrimEnd(_)
TrimEnd(s) ==
    IF s # <<>> /\ s[Len(s)] \in WhiteSpace THEN TrimEnd(SubSeq(s, 1, Len(s) - 1)) ELSE s

Trim(s) == TrimEnd(TrimStart(s))

\* String.prototype.toLowerCase on the letters the status codes use
LowerOf(c) ==
    CASE c = "O" -> "o" [] c = "N" -> "n" [] c = "S" -> "s" [] c = "A" -> "a"
      [] c = "L" -> "l" [] c = "E" -> "e" [] c = "F" -> "f" [] c = "C" -> "c"
      [] OTHER -> c

ToLowerCase(s) == [i \in 1..Len(s) |-> LowerOf(s[i])]

\* String.prototype.includes
Includes(s, sub) ==
    \E i \in 1..(Len(s) - Len(sub) + 1) : SubSeq(s, i, i + Len(sub) - 1) = sub

\* function ticketStatusColor(code)
TicketStatusColor(code) ==
    LET c == ToLowerCase(OrElse(code, Str(<<>>)).v)
    IN CASE Includes(c, <<"o", "n", "s", "a", "l", "e">>) -> "green"
         [] Includes(c, <<"o", "f", "f", "s", "a", "l", "e">>) -> "red"
         [] Includes(c, <<"c", "a", "n", "c", "e", "l">>) -> "black"
         [] Includes(c, <<"p", "o", "s", "t", "p", "o", "n">>) -> "orange"
         [] Includes(c, <<"r", "e", "s", "c", "h", "e", "d">>) -> "orange"
         [] OTHER -> "gray"

\* Number(x).toFixed(2) for a whole number x
ToFixed2(x) == ToString(x.v) \o ".00"

\* function formatPriceRange(ranges)
FormatPriceRange(ranges) ==
    IF ranges.t # "array" \/ Len(ranges.v) = 0 THEN Str("")
    ELSE LET r == ranges.v[1]
             min == IF ~IsNullish(Get(r, "min")) THEN Str(ToFixed2(Get(r, "min"))) ELSE Null
             max == IF ~IsNullish(Get(r, "max")) THEN Str(ToFixed2(Get(r, "max"))) ELSE Null
         IN IF Truthy(min) /\ Truthy(max) THEN Str("$" \o min.v \o " ~ $" \o max.v)
            ELSE IF Truthy(min) THEN Str("From $" \o min.v)
            ELSE IF Truthy(max) THEN Str("Up to $" \o max.v)
            ELSE Str("")

---------------------------------------------------------------------------
(* Requests, upstream outcomes and responses *)

NoRequest == [op |-> "none"]
NoCall == [endpoint |-> "none"]
NoOutcome == [kind |-> "none"]
NoResponse == [kind |-> "none"]

\* res.status(s).json(body); res.json(body) is status 200
Json(status, body) == [kind |-> "json", status |-> status, body |-> body]

\* next(err): the application error handler answers 500 { error: 'Server error' }
ServerError(err) ==
    [kind |-> "error", status |-> 500, body |-> Obj([error |-> Str("Server error")]),
     err |-> err]

\* Mutant of FetchCount: the handler fetches a second time.
FetchCountTwice(n) == n + 2

\* one more fetch() issued for the current request
FetchCount(n) == n + 1

\* Outcomes of `await fetch(url)` followed by `await r.json()`
FetchRejected == [kind |-> "rejected"]
Answer(status, json) == [kind |-> "response", status |-> status, json |-> json]
MalformedJson == Throw("SyntaxError")

\* r.ok
IsOk(o) == o.status >= 200 /\ o.status <= 299

FailureStatuses == {404, 500}

\* the outcomes that carry no payload
Failures ==
    {FetchRejected, Answer(200, MalformedJson)} \cup {Answer(s, Undef) : s \in FailureStatuses}

---------------------------------------------------------------------------
(* Query parameters the client may send *)

KwChars == {" ", "a"}
Keywords == {Undef} \cup {Str(s) : s \in SeqsUpTo(KwChars, MaxKw)}
Distances == {Undef, Str(""), Str("25")}
Categories ==
    {Undef} \cup {Str(c) : c \in DOMAIN SEGMENT_IDS}
    \cup {Str("Default"), Str("Comedy"), Str("music"), Str("constructor"), Str("toString")}
Coordinates == {Undef, Str(""), Str("34.0")}
VenueNames == {Undef, Str(""), Str("The Forum")}
EventIds == {"E1", "E2"}

---------------------------------------------------------------------------
(* GET /api/search *)

ImageA == Obj([url |-> Str("a"), width |-> Num(100), height |-> Num(100)])
ImageB == Obj([url |-> Str("b"), width |-> Num(50), height |-> Num(10)])

EventFull ==
    Obj([id |-> Str("E1"), name |-> Str("Show"),
         dates |-> Obj([start |-> Obj([localDate |-> Str("2025-01-01")])]),
         images |-> Arr(<<ImageB, ImageA>>),
         classifications |-> Arr(<<Obj([segment |-> Obj([name |-> Str("Music")]),
                                        genre |-> Obj([name |-> Str("Rock")])])>>),
         _embedded |-> Obj([venues |-> Arr(<<Obj([name |-> Str("The Forum")])>>)])])
EventBare == Obj([id |-> Str("E2")])
EventNullImage == Obj([id |-> Str("E3"), images |-> Arr(<<Null>>)])

EventSamples == {EventFull, EventBare, EventNullImage, Null}

\* values of j._embedded.events
EventsValues ==
    {Undef, Null, Num(0), Str(""), Str("none"), Obj([total |-> Num(0)])}
    \cup {Arr(s) : s \in SeqsUpTo(EventSamples, MaxEvents)}

SearchPayloads ==
    {Null, Obj([page |-> Num(0)])}
    \cup {Obj([_embedded |-> Obj([events |-> ev])]) : ev \in EventsValues \ {Undef}}
    \cup {Obj([_embedded |-> Obj([venues |-> Arr(<<>>)])])}

SearchOutcomes == Failures \cup {Answer(200, j) : j \in SearchPayloads}

\* Mutant of SearchValidation: lng is not checked.
SearchValidationNoLng(keyword, lat, lng) ==
    IF ~Truthy(keyword) THEN "keyword is required"
    ELSE IF ~Truthy(lat) THEN "lat and lng are required"
    ELSE ""

\* the two parameter checks of the search handler; "" when both pass
SearchValidation(keyword, lat, lng) ==
    IF ~Truthy(keyword) THEN "keyword is required"
    ELSE IF ~Truthy(lat) \/ ~Truthy(lng) THEN "lat and lng are required"
    ELSE ""

\* new URLSearchParams({...}) and params.set('segmentId', seg); geoPoint is
\* the uninterpreted term ngeohash.encode(parseFloat(lat), parseFloat(lng), 7)
SearchParams(keyword, distance, category, lat, lng) ==
    LET base == [apikey |-> "TM_API_KEY",
                 keyword |-> keyword.v,
                 radius |-> OrElse(distance, Str("10")).v,
                 unit |-> "miles",
                 geoPoint |-> [precision |-> 7, lat |-> lat, lng |-> lng]]
        seg == SegmentLookup(category)
    IN IF Truthy(seg) THEN ("segmentId" :> seg.v) @@ base ELSE base

\* the search handler after `await fetch(url)`
SearchResult(o) ==
    IF o.kind = "rejected" THEN ServerError("fetch failed")
    ELSE IF ~IsOk(o) THEN ServerError("TM search failed: " \o ToString(o.status))
    ELSE IF IsThrow(o.json) THEN ServerError(o.json.v)
    ELSE LET events == OrElse(Get(Get(o.json, "_embedded"), "events"), Arr(<<>>))
         IN IF events.t # "array" THEN ServerError("TypeError")
            ELSE LET rows == MapRows(events.v)
                 IN IF IsThrow(rows) THEN ServerError(rows.v) ELSE Json(200, rows)

SearchRequest(kw, dist, cat, lat, lng) ==
    /\ pc = "idle"
    /\ LET keyword == Default(kw, Str(<<>>))
           distance == Default(dist, Str("10"))
           category == Default(cat, Str("Default"))
           invalid == SearchValidation(keyword, lat, lng)
       IN /\ req' = [op |-> "search", keyword |-> kw, distance |-> dist,
                     category |-> cat, lat |-> lat, lng |-> lng]
          /\ IF invalid # ""
             THEN /\ res' = Json(400, Obj([error |-> Str(invalid)]))
                  /\ pc' = "done"
                  /\ UNCHANGED <<fetches, sent>>
             ELSE /\ sent' = [endpoint |-> "events.json",
                              params |-> SearchParams(keyword, distance, category, lat, lng)]
                  /\ fetches' = FetchCount(fetches)
                  /\ pc' = "await"
                  /\ UNCHANGED res
    /\ UNCHANGED <<upstream, arg, ret>>

SearchResponse(o) ==
    /\ pc = "await"
    /\ req.op = "search"
    /\ upstream' = o
    /\ res' = SearchResult(o)
    /\ pc' = "done"
    /\ UNCHANGED <<req, fetches, sent, arg, ret>>

---------------------------------------------------------------------------
(* GET /api/event/:id *)

OnSale == <<"o", "n", "s", "a", "l", "e">>
OffSaleCaps == <<"O", "F", "F", "S", "A", "L", "E">>

DetailFull ==
    Obj([id |-> Str("E1"), name |-> Str("Show"), url |-> Str("https://tm/E1"),
         dates |-> Obj([start |-> Obj([localDate |-> Str("2025-01-01"),
                                       localTime |-> Str("19:30:00")]),
                        status |-> Obj([code |-> Str(OnSale)])]),
         classifications |-> Arr(<<Obj([segment |-> Obj([name |-> Str("Music")]),
                                        genre |-> Obj([name |-> Str("Rock")])])>>),
         priceRanges |-> Arr(<<Obj([min |-> Num(20), max |-> Num(50)])>>),
         seatmap |-> Obj([staticUrl |-> Str("https://tm/seat.png")]),
         _embedded |->
            Obj([attractions |-> Arr([i \in 1..6 |->
                                        Obj([name |-> Str("Artist" \o ToString(i)),
                                             url |-> Str("https://tm/a" \o ToString(i))])]),
                 venues |-> Arr(<<Obj([name |-> Str("The Forum"),
                                       address |-> Obj([line1 |-> Str("3900 W Manchester")]),
                                       city |-> Obj([name |-> Str("Inglewood")]),
                                       state |-> Obj([stateCode |-> Str("CA")]),
                                       postalCode |-> Str("90305")])>>)])])
DetailBare ==
    Obj([id |-> Str("E2"),
         dates |-> Obj([status |-> Obj([code |-> Str(OffSaleCaps)])]),
         priceRanges |-> Arr(<<Obj([min |-> Num(20)])>>)])
DetailNullArtist ==
    Obj([id |-> Str("E3"), _embedded |-> Obj([attractions |-> Arr(<<Null>>)])])

DetailPayloads == {DetailFull, DetailBare, DetailNullArtist, Null}
DetailOutcomes == Failures \cup {Answer(200, j) : j \in DetailPayloads}

ArtistLimit == 5

\* (attractions || []).map(a => ({ name: a.name, url: a.url })).slice(0, 5)
Artists(attractions) ==
    LET list == OrElse(attractions, Arr(<<>>))
    IN IF list.t # "array" \/ \E i \in 1..Len(list.v) : IsNullish(list.v[i])
       THEN Throw("TypeError")
       ELSE LET mapped == [i \in 1..Len(list.v) |->
                              Obj([name |-> Get(list.v[i], "name"),
                                   url |-> Get(list.v[i], "url")])]
            IN Arr(SubSeq(mapped, 1, IF Len(mapped) < ArtistLimit THEN Len(mapped)
                                     ELSE ArtistLimit))

\* the detail handler after `await fetch(url)`
DetailResult(o) ==
    IF o.kind = "rejected" THEN ServerError("fetch failed")
    ELSE IF ~IsOk(o) THEN Json(o.status, Obj([error |-> Str("event not found")]))
    ELSE IF IsThrow(o.json) THEN ServerError(o.json.v)
    ELSE LET e == o.json
             venue == First(Get(Get(e, "_embedded"), "venues"))
             code == Get(Get(Get(e, "dates"), "status"), "code")
             artists == Artists(Get(Get(e, "_embedded"), "attractions"))
         IN IF IsNullish(e) THEN ServerError("TypeError")
            ELSE IF IsThrow(artists) THEN ServerError(artists.v)
            ELSE Json(200,
                Obj([id |-> Get(e, "id"),
                     name |-> Coalesce(Get(e, "name"), Str("")),
                     dateLocal |-> Coalesce(Get(Get(Get(e, "dates"), "start"), "localDate"),
                                            Str("")),
                     timeLocal |-> Coalesce(Get(Get(Get(e, "dates"), "start"), "localTime"),
                                            Str("")),
                     artists |-> artists,
                     venue |-> Coalesce(Get(venue, "name"), Str("")),
                     address |-> FullAddress(venue),
                     ticketStatus |-> Coalesce(code, Str(<<>>)),
                     ticketStatusColor |-> Str(TicketStatusColor(code)),
                     buyTicketAt |-> Coalesce(Get(e, "url"), Str("")),
                     seatmap |-> Coalesce(Get(Get(e, "seatmap"), "staticUrl"), Str("")),
                     priceRange |-> FormatPriceRange(Get(e, "priceRanges")),
                     genre |-> PickGenre(Get(e, "classifications"))]))

DetailRequest(id) ==
    /\ pc = "idle"
    /\ req' = [op |-> "detail", id |-> id]
    /\ sent' = [endpoint |-> "events/{id}.json", id |-> id, apikey |-> "TM_API_KEY"]
    /\ fetches' = FetchCount(fetches)
    /\ pc' = "await"
    /\ UNCHANGED <<res, upstream, arg, ret>>

DetailResponse(o) ==
    /\ pc = "await"
    /\ req.op = "detail"
    /\ upstream' = o
    /\ res' = DetailResult(o)
    /\ pc' = "done"
    /\ UNCHANGED <<req, fetches, sent, arg, ret>>

---------------------------------------------------------------------------
(* GET /api/venue *)

\* Number(s) for the coordinate strings of the sample payloads
NumberOf(x) ==
    CASE x.t = "number" -> x
      [] x.t = "string" /\ x.v = "34" -> Num(34)
      [] x.t = "string" /\ x.v = "-118" -> Num(-118)
      [] OTHER -> Undef

VenueFull ==
    Obj([name |-> Str("The Forum"), url |-> Str("https://tm/v1"),
         city |-> Obj([name |-> Str("Inglewood")]),
         location |-> Obj([latitude |-> Str("34"), longitude |-> Str("-118")])])
VenueNoLongitude ==
    Obj([name |-> Str("The Forum"), location |-> Obj([latitude |-> Str("34")])])
VenueBare == Obj([id |-> Str("V3")])

VenuePayloads ==
    {Null, Obj([page |-> Num(0)]), Obj([_embedded |-> Obj([venues |-> Arr(<<>>)])]),
     Obj([_embedded |-> Obj([venues |-> Arr(<<Null>>)])])}
    \cup {Obj([_embedded |-> Obj([venues |-> Arr(<<v>>)])]) :
            v \in {VenueFull, VenueNoLongitude, VenueBare}}
VenueOutcomes == Failures \cup {Answer(200, j) : j \in VenuePayloads}

\* Mutant of VenueResult: a reply that is not ok is answered with null.
VenueResultLenient(o) ==
    IF o.kind = "rejected" THEN ServerError("fetch failed")
    ELSE IF ~IsOk(o) THEN Json(200, Null)
    ELSE IF IsThrow(o.json) THEN ServerError(o.json.v)
    ELSE Json(200, Null)

\* the venue handler after `await fetch(url)`
VenueResult(o) ==
    IF o.kind = "rejected" THEN ServerError("fetch failed")
    ELSE IF ~IsOk(o) THEN ServerError("TM venue failed: " \o ToString(o.status))
    ELSE IF IsThrow(o.json) THEN ServerError(o.json.v)
    ELSE LET v == First(Get(Get(o.json, "_embedded"), "venues"))
             latitude == Get(Get(v, "location"), "latitude")
             longitude == Get(Get(v, "location"), "longitude")
         IN IF ~Truthy(v) THEN Json(200, Null)
            ELSE Json(200,
                Obj([name |-> Coalesce(Get(v, "name"), Str("")),
                     address |-> FullAddress(v),
                     location |->
                        Obj([lat |-> IF Truthy(latitude) THEN NumberOf(latitude) ELSE Null,
                             lng |-> IF Truthy(longitude) THEN NumberOf(longitude) ELSE Null]),
                     googleMapsUrl |->
                        IF Truthy(latitude) /\ Truthy(longitude)
                        THEN Str("https://www.google.com/maps/search/?api=1&query="
                                 \o latitude.v \o "," \o longitude.v)
                        ELSE Null,
                     tmUrl |-> Coalesce(Get(v, "url"), Null)]))

VenueRequest(name) ==
    /\ pc = "idle"
    /\ req' = [op |-> "venue", name |-> name]
    /\ IF ~Truthy(name)
       THEN /\ res' = Json(400, Obj([error |-> Str("name is required")]))
            /\ pc' = "done"
            /\ UNCHANGED <<fetches, sent>>
       ELSE /\ sent' = [endpoint |-> "venues.json",
                        params |-> [apikey |-> "TM_API_KEY", keyword |-> name.v,
                                    size |-> "1"]]
            /\ fetches' = FetchCount(fetches)
            /\ pc' = "await"
            /\ UNCHANGED res
    /\ UNCHANGED <<upstream, arg, ret>>

VenueResponse(o) ==
    /\ pc = "await"
    /\ req.op = "venue"
    /\ upstream' = o
    /\ res' = VenueResult(o)
    /\ pc' = "done"
    /\ UNCHANGED <<req, fetches, sent, arg, ret>>

---------------------------------------------------------------------------
(* GET /api/suggest *)

SuggestLimit == 10

\* Mutant of Unique: a repeated string keeps its last occurrence.
RECURSIVE UniqueKeepLast(_)
UniqueKeepLast(s) ==
    IF s = <<>> THEN <<>>
    ELSE LET rest == UniqueKeepLast(Tail(s))
         IN IF \E i \in 1..Len(rest) : rest[i] = s[1] THEN rest ELSE <<s[1]>> \o rest

\* [...new Set(suggestions)]: the elements in insertion order, an element
\* already in the set is not added again
RECURSIVE Unique(_)
Unique(s) ==
    IF s = <<>> THEN <<>>
    ELSE LET init == Unique(SubSeq(s, 1, Len(s) - 1))
             x == s[Len(s)]
         IN IF \E i \in 1..Len(init) : init[i] = x THEN init ELSE Append(init, x)

\* list.forEach(x => suggestions.push(x.name)); Throw when list is no array
\* or holds a null
NamesOf(list) ==
    IF list.t # "array" \/ \E i \in 1..Len(list.v) : IsNullish(list.v[i])
    THEN Throw("TypeError")
    ELSE Arr([i \in 1..Len(list.v) |-> Get(list.v[i], "name")])

\* the suggest handler from `const suggestions = []` to `.slice(0, 10)`
NormalizeSuggestions(j) ==
    IF IsNullish(j) THEN Throw("TypeError")
    ELSE IF ~Truthy(Get(j, "_embedded")) THEN Arr(<<>>)
    ELSE LET emb == Get(j, "_embedded")
             attractions == NamesOf(Default(Get(emb, "attractions"), Arr(<<>>)))
             venues == NamesOf(Default(Get(emb, "venues"), Arr(<<>>)))
             events == NamesOf(Default(Get(emb, "events"), Arr(<<>>)))
         IN IF IsThrow(attractions) \/ IsThrow(venues) \/ IsThrow(events)
            THEN Throw("TypeError")
            ELSE LET unique == Unique(attractions.v \o venues.v \o events.v)
                 IN Arr(SubSeq(unique, 1, IF Len(unique) < SuggestLimit THEN Len(unique)
                                          ELSE SuggestLimit))

Named(names) == Arr([i \in 1..Len(names) |-> Obj([name |-> Str(names[i])])])

SuggestPayload(attractions, venues, events) ==
    Obj([_embedded |-> Obj([attractions |-> Named(attractions), venues |-> Named(venues),
                            events |-> Named(events)])])

ShortNameLists == SeqsUpTo({"A", "B"}, MaxNames)

SuggestPayloads ==
    {Null, Obj([page |-> Num(0)]),
     Obj([_embedded |-> Obj([venues |-> Named(<<"B", "A", "B">>)])]),
     Obj([_embedded |-> Obj([attractions |-> Arr(<<Null>>)])])}
    \cup {SuggestPayload(a, v, e) : a \in ShortNameLists, v \in ShortNameLists,
                                    e \in ShortNameLists}
SuggestOutcomes == Failures \cup {Answer(200, j) : j \in SuggestPayloads}

\* Mutant of IsBlank: the keyword is tested without trim().
IsEmptyKeyword(keyword) == ~Truthy(keyword)

\* !keyword.trim()
IsBlank(keyword) == ~Truthy(Str(Trim(keyword.v)))

\* Mutant of SuggestResult: a reply that is not ok is answered with [].
SuggestResultLenient(o) ==
    IF o.kind = "rejected" THEN ServerError("fetch failed")
    ELSE IF ~IsOk(o) THEN Json(200, Arr(<<>>))
    ELSE IF IsThrow(o.json) THEN ServerError(o.json.v)
    ELSE LET unique == NormalizeSuggestions(o.json)
         IN IF IsThrow(unique) THEN ServerError(unique.v) ELSE Json(200, unique)

\* the suggest handler after `await fetch(url)`
SuggestResult(o) ==
    IF o.kind = "rejected" THEN ServerError("fetch failed")
    ELSE IF ~IsOk(o) THEN ServerError("TM suggest failed: " \o ToString(o.status))
    ELSE IF IsThrow(o.json) THEN ServerError(o.json.v)
    ELSE LET unique == NormalizeSuggestions(o.json)
         IN IF IsThrow(unique) THEN ServerError(unique.v) ELSE Json(200, unique)

SuggestRequest(kw) ==
    /\ pc = "idle"
    /\ LET keyword == Default(kw, Str(<<>>))
       IN /\ req' = [op |-> "suggest", keyword |-> kw]
          /\ IF IsBlank(keyword)
             THEN /\ res' = Json(200, Arr(<<>>))
                  /\ pc' = "done"
                  /\ UNCHANGED <<fetches, sent>>
             ELSE /\ sent' = [endpoint |-> "suggest", apikey |-> "TM_API_KEY",
                              keyword |-> keyword.v]
                  /\ fetches' = FetchCount(fetches)
                  /\ pc' = "await"
                  /\ UNCHANGED res
    /\ UNCHANGED <<upstream, arg, ret>>

SuggestResponse(o) ==
    /\ pc = "await"
    /\ req.op = "suggest"
    /\ upstream' = o
    /\ res' = SuggestResult(o)
    /\ pc' = "done"
    /\ UNCHANGED <<req, fetches, sent, arg, ret>>

\* the response is out; the server takes the next request
Finish ==
    /\ pc = "done"
    /\ req' = NoRequest
    /\ pc' = "idle"
    /\ fetches' = 0
    /\ sent' = NoCall
    /\ upstream' = NoOutcome
    /\ res' = NoResponse
    /\ UNCHANGED <<arg, ret>>

Init ==
    /\ req = NoRequest
    /\ pc = "idle"
    /\ fetches = 0
    /\ sent = NoCall
    /\ upstream = NoOutcome
    /\ res = NoResponse
    /\ arg = Undef
    /\ ret = Undef

Next ==
    \/ \E kw \in Keywords, dist \in Distances, cat \in Categories,
          lat \in Coordinates, lng \in Coordinates :
            SearchRequest(kw, dist, cat, lat, lng)
    \/ \E o \in SearchOutcomes : SearchResponse(o)
    \/ \E id \in EventIds : DetailRequest(id)
    \/ \E o \in DetailOutcomes : DetailResponse(o)
    \/ \E name \in VenueNames : VenueRequest(name)
    \/ \E o \in VenueOutcomes : VenueResponse(o)
    \/ \E kw \in Keywords : SuggestRequest(kw)
    \/ \E o \in SuggestOutcomes : SuggestResponse(o)
    \/ Finish

Spec == Init /\ [][Next]_vars


---------------------------------------------------------------------------
(* pickImage on its own: every images array up to MaxImages entries *)

ImageUrls == {Str(""), Str("a"), Str("b")}
ImageSizes == {<<2, 2>>, <<1, 2>>, <<3, 1>>}
ImageEntries ==
    {Null} \cup {Obj([url |-> u, width |-> Num(d[1]), height |-> Num(d[2])]) :
                    u \in ImageUrls, d \in ImageSizes}
ImageArgs == {Undef, Null} \cup {Arr(s) : s \in SeqsUpTo(ImageEntries, MaxImages)}

InitImage ==
    /\ req = NoRequest
    /\ pc = "call"
    /\ fetches = 0
    /\ sent = NoCall
    /\ upstream = NoOutcome
    /\ res = NoResponse
    /\ arg \in ImageArgs
    /\ ret = Undef

PickImageCall ==
    /\ pc = "call"
    /\ ret' = PickImage(arg)
    /\ pc' = "return"
    /\ UNCHANGED <<req, fetches, sent, upstream, res, arg>>

NextImage == PickImageCall

SpecImage == InitImage /\ [][NextImage]_vars

---------------------------------------------------------------------------
(* The suggestion normalisation on its own: name lists long enough to pass *)
(* the limit of ten, with repeats inside a list and across lists           *)

\* len names starting at n<start>: consecutive ones (step 1) or one repeated
\* name (step 0)
Run(start, len, step) ==
    [i \in 1..len |-> "n" \o ToString((start + (i - 1) * step) % 12)]
RunLists == {Run(s, l, st) : s \in {0, 4, 8}, l \in 0..MaxRun, st \in {0, 1}}

SuggestArgs ==
    {Obj([page |-> Num(0)]), Obj([_embedded |-> Obj([events |-> Named(<<"n1", "n1">>)])])}
    \cup {SuggestPayload(a, v, e) : a \in RunLists, v \in RunLists, e \in RunLists}

InitSuggest ==
    /\ req = NoRequest
    /\ pc = "call"
    /\ fetches = 0
    /\ sent = NoCall
    /\ upstream = NoOutcome
    /\ res = NoResponse
    /\ arg \in SuggestArgs
    /\ ret = Undef

NormalizeSuggestionsCall ==
    /\ pc = "call"
    /\ ret' = NormalizeSuggestions(arg)
    /\ pc' = "return"
    /\ UNCHANGED <<req, fetches, sent, upstream, res, arg>>

NextSuggest == NormalizeSuggestionsCall

SpecSuggest == InitSuggest /\ [][NextSuggest]_vars


---------------------------------------------------------------------------
(* Properties *)

AllWhiteSpace(s) == \A i \in 1..Len(s) : s[i] \in {" ", "\t", "\n"}

\* the request is one the handler answers without asking upstream
SearchInvalid ==
    /\ req.op = "search"
    /\ \/ req.keyword \in {Undef, Str(<<>>)}
       \/ req.lat = Undef
       \/ req.lng = Undef

SuggestBlank ==
    /\ req.op = "suggest"
    /\ \/ req.keyword = Undef
       \/ AllWhiteSpace(req.keyword.v)

\* the upstream reply was a response with a status that is not 2xx
UpstreamNotOk ==
    /\ upstream.kind = "response"
    /\ ~(upstream.status \in 200..299)

\* the upstream reply was a 2xx response whose body parsed as JSON
UpstreamParsed ==
    /\ upstream.kind = "response"
    /\ upstream.status \in 200..299
    /\ upstream.json.t # "throw"

\* C1: a search request whose keyword is empty, or whose lat or lng is
\* missing, is answered at once with status 400 and no upstream call is issued
\* for it, whatever distance and category are.
C1_ValidationBeforeUpstream ==
    SearchInvalid =>
        /\ pc = "done"
        /\ res.kind = "json"
        /\ res.status = 400
        /\ fetches = 0
        /\ sent = NoCall

C1_Witness ==
    /\ SearchInvalid
    /\ req.keyword = Str(<<"a">>)
    /\ req.lat = Str("34.0")
    /\ req.lng = Undef
    /\ req.category = Str("Music")
    /\ req.distance = Str("25")
    /\ pc = "done"
    /\ res.status = 400

\* C2: a suggest request whose keyword is empty or only whitespace is answered
\* with the empty list and the upstream suggest endpoint is not invoked.
C2_BlankSuggestShortCircuits ==
    SuggestBlank =>
        /\ pc = "done"
        /\ res.kind = "json"
        /\ res.status = 200
        /\ res.body = Arr(<<>>)
        /\ fetches = 0
        /\ sent = NoCall

C2_Witness ==
    /\ req.op = "suggest"
    /\ req.keyword = Str(<<" ", " ">>)
    /\ pc = "done"
    /\ res.kind = "json"
    /\ res.body = Arr(<<>>)
    /\ fetches = 0

\* the suggest payload is a JSON object whose embedded lists, where present,
\* are arrays of objects
SuggestWellFormed(j) ==
    /\ j.t = "object"
    /\ "_embedded" \in DOMAIN j.v =>
        /\ j.v._embedded.t = "object"
        /\ \A k \in DOMAIN j.v._embedded.v :
             /\ j.v._embedded.v[k].t = "array"
             /\ \A i \in 1..Len(j.v._embedded.v[k].v) :
                  j.v._embedded.v[k].v[i].t = "object"

SuggestHasNames(j) ==
    /\ "_embedded" \in DOMAIN j.v
    /\ \E k \in DOMAIN j.v._embedded.v : Len(j.v._embedded.v[k].v) > 0

IsListOfStrings(b) ==
    /\ b.t = "array"
    /\ \A i \in 1..Len(b.v) : b.v[i].t = "string"

\* C3 as stated: the suggest operation never fails; for blank input, for a
\* successful upstream answer and for a non-success status alike it ends by
\* returning a list of strings.
C3_SuggestNeverFails ==
    (/\ req.op = "suggest"
     /\ pc = "done"
     /\ \/ SuggestBlank
        \/ UpstreamNotOk
        \/ UpstreamParsed /\ SuggestWellFormed(upstream.json))
    => /\ res.kind = "json"
       /\ res.status = 200
       /\ IsListOfStrings(res.body)

\* C3 amended: the suggest operation returns a list of strings (empty for
\* blank input or when there are no matches) for blank input and for every
\* successful upstream answer whose payload is well formed; a non-success
\* upstream status ends in the error outcome (error handler, status 500).
C3_SuggestFailsOnlyOnUpstreamError ==
    (req.op = "suggest" /\ pc = "done") =>
        /\ (SuggestBlank \/ (UpstreamParsed /\ SuggestWellFormed(upstream.json))) =>
              /\ res.kind = "json"
              /\ res.status = 200
              /\ IsListOfStrings(res.body)
              /\ (SuggestBlank \/ ~SuggestHasNames(upstream.json)) => res.body = Arr(<<>>)
        /\ (~SuggestBlank /\ UpstreamNotOk) =>
              /\ res.kind = "error"
              /\ res.status = 500

C3_Witness ==
    /\ req.op = "suggest"
    /\ pc = "done"
    /\ UpstreamNotOk
    /\ upstream.status = 500
    /\ res.kind = "error"

\* first embedded venue of a parsed venue payload, if any
HasEmbeddedVenue(j) ==
    /\ j.t = "object"
    /\ "_embedded" \in DOMAIN j.v
    /\ "venues" \in DOMAIN j.v._embedded.v
    /\ Len(j.v._embedded.v.venues.v) > 0
    /\ j.v._embedded.v.venues.v[1].t = "object"

\* C4 as stated: a non-success upstream status on a venue lookup gives null,
\* the same outcome as a successful payload with no embedded venue.
C4_VenueNotFoundIsNull ==
    (req.op = "venue" /\ pc = "done" /\ UpstreamNotOk) =>
        /\ res.kind = "json"
        /\ res.status = 200
        /\ res.body.t = "null"

\* C4 amended: a non-success upstream status on a venue lookup ends in the
\* error outcome (error handler, status 500); null is returned exactly for a
\* successful payload with no embedded venue.
C4_VenueNullOnlyForEmptyPayload ==
    (req.op = "venue" /\ pc = "done" /\ upstream.kind = "response") =>
        /\ UpstreamNotOk => (res.kind = "error" /\ res.status = 500)
        /\ (res.kind = "json" /\ res.body.t = "null")
              <=> (UpstreamParsed /\ ~HasEmbeddedVenue(upstream.json))

C4_Witness ==
    /\ req.op = "venue"
    /\ pc = "done"
    /\ UpstreamNotOk
    /\ upstream.status = 404
    /\ res.kind = "error"

\* C5: the detail operation answers 'event not found' only when upstream
\* reports the event absent (404); any other upstream failure is a generic
\* failure and is not presented as 'event not found'.
C5_NotFoundOnlyWhenAbsent ==
    (/\ req.op = "detail"
     /\ pc = "done"
     /\ res.kind = "json"
     /\ res.body = Obj([error |-> Str("event not found")]))
    => (upstream.kind = "response" /\ upstream.status = 404)

\* the request is answered by parameter validation or by the blank-keyword
\* short-circuit
Rejected ==
    \/ req.op = "search" /\ (\/ req.keyword \in {Undef, Str(<<>>)}
                             \/ req.lat \in {Undef, Str("")}
                             \/ req.lng \in {Undef, Str("")})
    \/ req.op = "venue" /\ req.name \in {Undef, Str("")}
    \/ SuggestBlank

C7_SegmentIdIffKnownLabel ==
    (req.op = "search" /\ pc = "await") =>
        LET label == IF req.category = Undef THEN "Default" ELSE req.category.v
            known == {"Music", "Sports", "Arts & Theatre", "Film", "Miscellaneous"}
            set == "segmentId" \in DOMAIN sent.params
        IN /\ set <=> label \in known
           /\ set =>
                sent.params["segmentId"] =
                    CASE label = "Music" -> "KZFzniwnSyZfZ7v7nJ"
                      [] label = "Sports" -> "KZFzniwnSyZfZ7v7nE"
                      [] label = "Arts & Theatre" -> "KZFzniwnSyZfZ7v7na"
                      [] label = "Film" -> "KZFzniwnSyZfZ7v7nn"
                      [] label = "Miscellaneous" -> "KZFzniwnSyZfZ7v7n1"
                      [] OTHER -> ""

\* the names of one embedded list of the payload under test
ListedNames(k) ==
    IF "_embedded" \in DOMAIN arg.v /\ k \in DOMAIN arg.v._embedded.v
    THEN [i \in 1..Len(arg.v._embedded.v[k].v) |-> arg.v._embedded.v[k].v[i].v.name]
    ELSE <<>>

AllListedNames == ListedNames("attractions") \o ListedNames("venues") \o ListedNames("events")

\* the positions of a name sequence that hold a name for the first time
FirstOccurrences(names) ==
    {i \in 1..Len(names) : \A j \in 1..(i - 1) : names[j] # names[i]}

\* C8: the suggestion list is the attraction names, then the venue names,
\* then the event names, each duplicate removed keeping its first occurrence,
\* cut to the first 10; so it has no repeated element and at most 10 elements,
\* and a payload without _embedded gives the empty list.
C8_SuggestionsAreFirstTenDistinct ==
    pc = "return" =>
        LET names == AllListedNames
            first == FirstOccurrences(names)
            out == ret.v
        IN /\ ret.t = "array"
           /\ Len(out) <= 10
           /\ Len(out) = IF Cardinality(first) < 10 THEN Cardinality(first) ELSE 10
           /\ \A i, j \in 1..Len(out) : i # j => out[i] # out[j]
           /\ \A i \in first :
                LET k == Cardinality({j \in first : j <= i})
                IN k <= 10 => out[k] = names[i]
           /\ ~("_embedded" \in DOMAIN arg.v) => ret = Arr(<<>>)

C8_Witness ==
    /\ pc = "return"
    /\ Cardinality(FirstOccurrences(AllListedNames)) > 10
    /\ Len(AllListedNames) > Cardinality(FirstOccurrences(AllListedNames))
    /\ ListedNames("attractions") # <<>>
    /\ ListedNames("venues") # <<>>
    /\ Len(ret.v) = 10

\* C9: a successful search payload whose embedded events value is absent or
\* is not an array is answered with the empty list of rows, never an error.
C9_NonArrayEventsIsEmpty ==
    (/\ req.op = "search"
     /\ pc = "done"
     /\ UpstreamParsed
     /\ ~(/\ upstream.json.t = "object"
          /\ "_embedded" \in DOMAIN upstream.json.v
          /\ "events" \in DOMAIN upstream.json.v._embedded.v
          /\ upstream.json.v._embedded.v.events.t = "array"))
    => /\ res.kind = "json"
       /\ res.status = 200
       /\ res.body = Arr(<<>>)

\* |width - height| of the i-th image of the array under test
AspectGap(i) ==
    LET w == arg.v[i].v.width.v
        h == arg.v[i].v.height.v
    IN IF w >= h THEN w - h ELSE h - w

\* the earliest image among those with the smallest gap
Squarest ==
    CHOOSE i \in 1..Len(arg.v) :
        /\ \A j \in 1..Len(arg.v) : AspectGap(i) <= AspectGap(j)
        /\ \A j \in 1..(i - 1) : AspectGap(j) > AspectGap(i)

ImagesAllObjects ==
    /\ arg.t = "array"
    /\ \A i \in 1..Len(arg.v) : arg.v[i].t = "object"

\* C10 as stated: pickImage returns the url of the earliest image with the
\* smallest width/height gap, the empty string for an empty or missing array,
\* and never throws.
C10_PickImageSquarestNeverThrows ==
    pc = "return" =>
        /\ ret.t # "throw"
        /\ (arg.t # "array" \/ Len(arg.v) = 0) => ret = Str("")
        /\ (ImagesAllObjects /\ Len(arg.v) > 0) => ret = arg.v[Squarest].v.url

====
